---- MODULE Spec2Model ----
(***************************************************************************)
(* A model of the SQL formatter core: Tokenizer (src/src/core/Tokenizer.ts),*)
(* Formatter (src/src/core/Formatter.ts), Params (src/unnamed/part_001) and *)
(* the token types (src/unnamed/part_000).                                  *)
(*                                                                          *)
(* A JavaScript string is modelled as a sequence of one-character strings,  *)
(* so "ab" is <<"a", "b">>.  A regular expression is modelled by an         *)
(* operator that returns the length of its match at the start of the input, *)
(* or NoMatch; a match of length 0 is a match.                              *)
(***************************************************************************)
EXTENDS Integers, Sequences, FiniteSets, TLC

NoMatch == -1

Min(S) == CHOOSE x \in S : \A y \in S : x <= y

\* Op applied to the value of e: e is evaluated once, as a JavaScript
\* argument or local constant is
Let(Op(_), e) == CHOOSE r \in {Op(x) : x \in {e}} : TRUE

(* ------------------------------------------------------------------------ *)
(* Characters                                                               *)
(* ------------------------------------------------------------------------ *)
LowerAlpha ==
  <<"a","b","c","d","e","f","g","h","i","j","k","l","m",
    "n","o","p","q","r","s","t","u","v","w","x","y","z">>
UpperAlpha ==
  <<"A","B","C","D","E","F","G","H","I","J","K","L","M",
    "N","O","P","Q","R","S","T","U","V","W","X","Y","Z">>
Letters == {LowerAlpha[i] : i \in DOMAIN LowerAlpha} \cup {UpperAlpha[i] : i \in DOMAIN UpperAlpha}
Digits == {"0","1","2","3","4","5","6","7","8","9"}
HexDigits == Digits \cup {"a","b","c","d","e","f","A","B","C","D","E","F"}
BinDigits == {"0","1"}
\* \w of a JavaScript regular expression
WordChars == Letters \cup Digits \cup {"_"}
\* \s of a JavaScript regular expression (the ASCII part)
WhiteSpace == {" ", "\t", "\n", "\r", "\f"}
\* the characters "." of a regular expression does not match
LineTerminators == {"\n", "\r"}
\* [a-zA-Z0-9._$]
IdentChars == Letters \cup Digits \cup {".", "_", "$"}

\* the backtick character, which a string literal of this module cannot hold
Backtick == "BACKTICK"

\* String.prototype.toUpperCase on one ASCII character
toUpperCaseChar(c) ==
  IF \E i \in DOMAIN LowerAlpha : LowerAlpha[i] = c
  THEN UpperAlpha[CHOOSE i \in DOMAIN LowerAlpha : LowerAlpha[i] = c]
  ELSE c

toUpperCase(s) == [i \in 1..Len(s) |-> toUpperCaseChar(s[i])]

\* String.prototype.substring(k) and the first k characters
substring(s, k) == SubSeq(s, k + 1, Len(s))
Take(s, k) == SubSeq(s, 1, k)

(* ------------------------------------------------------------------------ *)
(* Regular-expression building blocks.  An offset k is the number of        *)
(* characters already consumed: the next character is s[k+1].               *)
(* ------------------------------------------------------------------------ *)
\* length of the longest run, from offset k, of characters in S: [S]*
RunIn(s, k, S) ==
  LET bad == {i \in (k + 1)..Len(s) : s[i] \notin S}
  IN (IF bad = {} THEN Len(s) ELSE Min(bad) - 1) - k

\* length of the longest run, from offset k, of characters not in S: [^S]*
RunNotIn(s, k, S) ==
  LET bad == {i \in (k + 1)..Len(s) : s[i] \in S}
  IN (IF bad = {} THEN Len(s) ELSE Min(bad) - 1) - k

IsWordAt(s, i) == i >= 1 /\ i <= Len(s) /\ s[i] \in WordChars

\* \b at offset k
Boundary(s, k) == IsWordAt(s, k) # IsWordAt(s, k + 1)

\* a literal at offset k
MatchLit(s, k, p) ==
  k + Len(p) <= Len(s) /\ \A i \in 1..Len(p) : s[k + i] = p[i]

\* a literal at offset k under the "i" flag
MatchLitCI(s, k, p) ==
  k + Len(p) <= Len(s)
  /\ \A i \in 1..Len(p) : toUpperCaseChar(s[k + i]) = toUpperCaseChar(p[i])

\* list.join('|') inside a group: an empty list leaves the empty alternative
Alternatives(list) == IF list = <<>> THEN << <<>> >> ELSE list

(* ------------------------------------------------------------------------ *)
(* Token types (src/unnamed/part_000) and tokens (src/unnamed/part_002)     *)
(* ------------------------------------------------------------------------ *)
tokenTypes ==
  [WHITESPACE |-> "whitespace", WORD |-> "word", STRING |-> "string",
   RESERVED |-> "reserved", RESERVED_TOPLEVEL |-> "reserved-toplevel",
   RESERVED_NEWLINE |-> "reserved-newline", OPERATOR |-> "operator",
   OPEN_PAREN |-> "open-paren", CLOSE_PAREN |-> "close-paren",
   LINE_COMMENT |-> "line-comment", BLOCK_COMMENT |-> "block-comment",
   NUMBER |-> "number", PLACEHOLDER |-> "placeholder", COMMENT |-> "comment"]

Token(type, value, key) == [type |-> type, value |-> value, key |-> key]

\* the JavaScript value undefined where a Token is expected
Undefined == Token("undefined", <<>>, <<>>)

\* a SyntaxError raised by new RegExp while a token is being built
Thrown == Token("SyntaxError", <<>>, <<>>)

\* a || b on Token | undefined
OrElse(a, b) == Let(LAMBDA x : IF x # Undefined THEN x ELSE b, a)

(* ------------------------------------------------------------------------ *)
(* The regular expressions of the Tokenizer constructor.  A tokenizer       *)
(* configuration is a record of lists; an absent list is the empty list     *)
(* (the default parameter value of each create...Regex method).             *)
(* ------------------------------------------------------------------------ *)
\* /^(\s+)/
WHITESPACE_REGEX(s) ==
  LET n == RunIn(s, 0, WhiteSpace) IN IF n >= 1 THEN n ELSE NoMatch

\* /^((-\s*)?[0-9]+(\.[0-9]+)?|0x[0-9a-fA-F]+|0b[01]+)\b/
NUMBER_REGEX(s) ==
  LET m == IF MatchLit(s, 0, <<"-">>) THEN 1 + RunIn(s, 1, WhiteSpace) ELSE 0
      d == RunIn(s, m, Digits)
      e1 == m + d
      f == IF MatchLit(s, e1, <<".">>) THEN RunIn(s, e1 + 1, Digits) ELSE 0
      h == RunIn(s, 2, HexDigits)
      b == RunIn(s, 2, BinDigits)
  IN IF d >= 1 /\ f >= 1 /\ Boundary(s, e1 + 1 + f) THEN e1 + 1 + f
     ELSE IF d >= 1 /\ Boundary(s, e1) THEN e1
     ELSE IF MatchLit(s, 0, <<"0","x">>) /\ h >= 1 /\ Boundary(s, 2 + h) THEN 2 + h
     ELSE IF MatchLit(s, 0, <<"0","b">>) /\ b >= 1 /\ Boundary(s, 2 + b) THEN 2 + b
     ELSE NoMatch

\* the multi-character alternatives of OPERATOR_REGEX, in order
Operators ==
  << <<"!","=">>, <<"<",">">>, <<"=","=">>, <<"<","=">>, <<">","=">>,
     <<"!","<">>, <<"!",">">>, <<"|","|">>, <<":",":">>, <<"-",">",">">>,
     <<"-",">">>, <<"~","~","*">>, <<"~","~">>, <<"!","~","~","*">>,
     <<"!","~","~">>, <<"~","*">>, <<"!","~","*">>, <<"!","~">> >>

\* /^(!=|<>|==|<=|>=|!<|!>|\|\||::|->>|->|~~\*|~~|!~~\*|!~~|~\*|!~\*|!~|.)/
OPERATOR_REGEX(s) ==
  LET hits == {i \in DOMAIN Operators : MatchLit(s, 0, Operators[i])}
  IN IF hits # {} THEN Len(Operators[Min(hits)])
     ELSE IF Len(s) >= 1 /\ s[1] \notin LineTerminators THEN 1
     ELSE NoMatch

\* the first occurrence of "*/" at or after offset k, as the offset after it;
\* the end of the input when there is none: [^]*?(?:\*\/|$)
BlockCommentEnd(s, k) ==
  LET ends == {i \in k..(Len(s) - 2) : MatchLit(s, i, <<"*","/">>)}
  IN IF ends = {} THEN Len(s) ELSE Min(ends) + 2

\* /^(\/\*[^]*?(?:\*\/|$))/
BLOCK_COMMENT_REGEX(s) ==
  IF MatchLit(s, 0, <<"/","*">>) THEN BlockCommentEnd(s, 2) ELSE NoMatch

\* .*?(?:\n|$) from offset k: through the first "\n", or to the end of the
\* input; no match when another line terminator comes first
LineEnd(s, k) ==
  LET n == k + RunNotIn(s, k, LineTerminators)
  IN IF n = Len(s) THEN n
     ELSE IF s[n + 1] = "\n" THEN n + 1
     ELSE NoMatch

\* new RegExp('^((?:' + lineCommentTypes...join('|') + ').*?(?:\n|$))')
createLineCommentRegex(lineCommentTypes, s) ==
  LET alts == Alternatives(lineCommentTypes)
      hits == {i \in DOMAIN alts :
                 MatchLit(s, 0, alts[i]) /\ LineEnd(s, Len(alts[i])) # NoMatch}
  IN IF hits = {} THEN NoMatch ELSE LineEnd(s, Len(alts[Min(hits)]))

\* the number of consecutive " " of word w from index j
SpacesFrom(w, j) == RunIn(w, j - 1, {" "})

\* one reserved word (each " " of it replaced by \s+) from offset k of s,
\* under the "i" flag: the offset after the match, or NoMatch
RECURSIVE ReservedWordEnd(_, _, _, _)
ReservedWordEnd(s, k, w, j) ==
  IF j > Len(w) THEN k
  ELSE IF w[j] = " "
    THEN LET m == SpacesFrom(w, j)
             run == RunIn(s, k, WhiteSpace)
         IN IF run >= m THEN ReservedWordEnd(s, k + run, w, j + m) ELSE NoMatch
  ELSE IF k + 1 <= Len(s) /\ toUpperCaseChar(s[k + 1]) = toUpperCaseChar(w[j])
    THEN ReservedWordEnd(s, k + 1, w, j + 1)
  ELSE NoMatch

\* new RegExp('^(${reservedWords.join('|').replace(/ /g, '\\s+')})\\b', 'i')
createReservedWordRegex(reservedWords, s) ==
  LET alts == Alternatives(reservedWords)
      End(i) == ReservedWordEnd(s, 0, alts[i], 1)
      hits == {i \in DOMAIN alts : End(i) # NoMatch /\ Boundary(s, End(i))}
  IN IF hits = {} THEN NoMatch ELSE End(Min(hits))

\* the characters of the class [\w${specialChars.join('')}]
WordClass(specialChars) ==
  WordChars \cup {specialChars[i][1] : i \in DOMAIN specialChars}

\* new RegExp('^([\\w${specialChars.join('')}]+)')
createWordRegex(specialChars, s) ==
  LET n == RunIn(s, 0, WordClass(specialChars))
  IN IF n >= 1 THEN n ELSE NoMatch

(* ------------------------------------------------------------------------ *)
(* String patterns (createStringPattern).  Each pattern is a repetition of  *)
(* quoted parts; an unterminated part runs to the end of the input.         *)
(* ------------------------------------------------------------------------ *)
\* [^q\\ excl]*(?:\\.[^q\\ excl]*)*(q|$) from offset i: the offset after the
\* closing quote q, or the end of the input; NoMatch on a character of excl
\* and on a backslash that no character "." matches follows
RECURSIVE QuotedBodyEnd(_, _, _, _)
QuotedBodyEnd(s, i, q, excl) ==
  IF i = Len(s) THEN i
  ELSE IF s[i + 1] = q THEN i + 1
  ELSE IF s[i + 1] = "\\"
    THEN IF i + 2 <= Len(s) /\ s[i + 2] \notin LineTerminators
         THEN QuotedBodyEnd(s, i + 2, q, excl)
         ELSE NoMatch
  ELSE IF s[i + 1] \in excl THEN NoMatch
  ELSE QuotedBodyEnd(s, i + 1, q, excl)

\* one part: the opening text, then the body
QuotedPartEnd(s, k, open, q, excl) ==
  IF MatchLit(s, k, open) THEN QuotedBodyEnd(s, k + Len(open), q, excl) ELSE NoMatch

\* (part)+ from offset k, given that the first part ended at offset e
RECURSIVE QuotedMore(_, _, _, _, _)
QuotedMore(s, e, open, q, excl) ==
  Let(LAMBDA n : IF n = NoMatch THEN e ELSE QuotedMore(s, n, open, q, excl),
      QuotedPartEnd(s, e, open, q, excl))

\* "((open[^q\\]*(?:\\.[^q\\]*)*(q|$))+)" from offset k
QuotedEnd(s, k, open, q, excl) ==
  Let(LAMBDA e : IF e = NoMatch THEN NoMatch ELSE QuotedMore(s, e, open, q, excl),
      QuotedPartEnd(s, k, open, q, excl))

\* open[^close]*($|close) from offset k
DelimitedPartEnd(s, k, open, close) ==
  IF MatchLit(s, k, <<open>>)
  THEN LET r == k + 1 + RunNotIn(s, k + 1, {close})
       IN IF r = Len(s) THEN r ELSE r + 1
  ELSE NoMatch

RECURSIVE DelimitedMore(_, _, _, _)
DelimitedMore(s, e, open, close) ==
  Let(LAMBDA n : IF n = NoMatch THEN e ELSE DelimitedMore(s, n, open, close),
      DelimitedPartEnd(s, e, open, close))

\* patterns[t] from offset k, for each of the five string types
StringTypePattern(t, s, k) ==
  CASE t = "backticks" ->
         \* the type written with two backticks: ((B[^B]*($|B))+), B the backtick
         Let(LAMBDA e : IF e = NoMatch THEN NoMatch
                        ELSE DelimitedMore(s, e, Backtick, Backtick),
             DelimitedPartEnd(s, k, Backtick, Backtick))
    [] t = "[]" ->
         \* ((\[[^\]]*($|\]))(\][^\]]*($|\]))*)
         Let(LAMBDA e : IF e = NoMatch THEN NoMatch ELSE DelimitedMore(s, e, "]", "]"),
             DelimitedPartEnd(s, k, "[", "]"))
    [] t = "\"\"" ->
         \* (("[^"\\]*(?:\\.[^"\\]*)*("|$))+)
         QuotedEnd(s, k, <<"\"">>, "\"", {})
    [] t = "''" ->
         \* (('[^'\\]*(?:\\.[^'\\]*)*('|$))+)
         QuotedEnd(s, k, <<"'">>, "'", {})
    [] t = "N''" ->
         \* ((N'[^N'\\]*(?:\\.[^N'\\]*)*('|$))+)
         QuotedEnd(s, k, <<"N", "'">>, "'", {"N"})

\* stringTypes.map(t => patterns[t]).join('|') from offset k: the offset
\* after the match of the first alternative that matches; the empty pattern
\* (no string types) matches the empty string
createStringPattern(stringTypes, s, k) ==
  LET hits == {i \in DOMAIN stringTypes : StringTypePattern(stringTypes[i], s, k) # NoMatch}
  IN IF stringTypes = <<>> THEN k
     ELSE IF hits = {} THEN NoMatch
     ELSE StringTypePattern(stringTypes[Min(hits)], s, k)

\* new RegExp('^(${this.createStringPattern(stringTypes)})')
createStringRegex(stringTypes, s) == createStringPattern(stringTypes, s, 0)

\* escapeParen(paren) at the start of s, under the "i" flag: the length of
\* the match.  One character is matched literally, a longer word between \b
escapeParen(paren, s) ==
  IF Len(paren) = 1
  THEN IF MatchLitCI(s, 0, paren) THEN 1 ELSE NoMatch
  ELSE IF Boundary(s, 0) /\ MatchLitCI(s, 0, paren) /\ Boundary(s, Len(paren))
       THEN Len(paren) ELSE NoMatch

\* new RegExp('^(${parens.map(p => this.escapeParen(p)).join('|')})', 'i')
createParenRegex(parens, s) ==
  LET hits == {i \in DOMAIN parens : escapeParen(parens[i], s) # NoMatch}
  IN IF parens = <<>> THEN 0
     ELSE IF hits = {} THEN NoMatch
     ELSE escapeParen(parens[Min(hits)], s)

\* the three patterns createPlaceholderRegex is called with, from offset k
PlaceholderPattern(pattern, stringTypes, s, k) ==
  CASE pattern = "[0-9]*" -> k + RunIn(s, k, Digits)
    [] pattern = "[a-zA-Z0-9._$]+" ->
         IF RunIn(s, k, IdentChars) >= 1 THEN k + RunIn(s, k, IdentChars) ELSE NoMatch
    [] pattern = "string" -> createStringPattern(stringTypes, s, k)

\* new RegExp('^((?:${types.map(escapeRegExp).join('|')})(?:${pattern}))')
createPlaceholderRegex(types, pattern, stringTypes, s) ==
  LET alts == Alternatives(types)
      End(i) == IF MatchLit(s, 0, alts[i])
                THEN PlaceholderPattern(pattern, stringTypes, s, Len(alts[i]))
                ELSE NoMatch
      hits == {i \in DOMAIN alts : End(i) # NoMatch}
  IN IF hits = {} THEN NoMatch ELSE End(Min(hits))

(* ------------------------------------------------------------------------ *)
(* Token matchers of the Tokenizer.  cfg is the constructor's argument.     *)
(* ------------------------------------------------------------------------ *)
\* input.match(regex): matches[1] is the matched text, also when it is empty
getTokenOnFirstMatch(input, type, matchLen) ==
  Let(LAMBDA n : IF n # NoMatch THEN Token(type, Take(input, n), <<>>) ELSE Undefined,
      matchLen)

getWhitespaceToken(input) ==
  getTokenOnFirstMatch(input, tokenTypes.WHITESPACE, WHITESPACE_REGEX(input))

getLineCommentToken(cfg, input) ==
  getTokenOnFirstMatch(input, tokenTypes.LINE_COMMENT,
                       createLineCommentRegex(cfg.lineCommentTypes, input))

getBlockCommentToken(input) ==
  getTokenOnFirstMatch(input, tokenTypes.BLOCK_COMMENT, BLOCK_COMMENT_REGEX(input))

getCommentToken(cfg, input) ==
  OrElse(getLineCommentToken(cfg, input), getBlockCommentToken(input))

getStringToken(cfg, input) ==
  getTokenOnFirstMatch(input, tokenTypes.STRING, createStringRegex(cfg.stringTypes, input))

\* the token as matched, its text left in the case of the input
UpperCased_Verbatim(tk) == tk

\* tk.value = tk.value.toUpperCase() when tk is a token
UpperCased(tk) ==
  Let(LAMBDA t : IF t # Undefined THEN [t EXCEPT !.value = toUpperCase(t.value)] ELSE t, tk)

getOpenParenToken(cfg, input) ==
  UpperCased(getTokenOnFirstMatch(input, tokenTypes.OPEN_PAREN,
                                  createParenRegex(cfg.openParens, input)))

getCloseParenToken(cfg, input) ==
  UpperCased(getTokenOnFirstMatch(input, tokenTypes.CLOSE_PAREN,
                                  createParenRegex(cfg.closeParens, input)))

\* the quote characters q for which new RegExp(escapeRegExp('\\') + q, 'g')
\* is a SyntaxError: an unterminated group or class, an unmatched ")", a
\* trailing backslash
RegExpSyntaxError(quoteChar) == quoteChar \in { <<"(">>, <<")">>, <<"[">>, <<"\\">> }

\* the length of the match of the pattern "\\" + quoteChar at offset i of
\* key; quoteChar is read as regular-expression syntax, as the code does
EscapeMatchLen(key, i, quoteChar) ==
  LET bs == i + 1 <= Len(key) /\ key[i + 1] = "\\"
  IN CASE quoteChar = <<>> -> IF bs THEN 1 ELSE NoMatch
       [] quoteChar = <<"*">> -> RunIn(key, i, {"\\"})
       [] quoteChar = <<"+">> -> IF bs THEN RunIn(key, i, {"\\"}) ELSE NoMatch
       [] quoteChar \in { <<"?">>, <<"|">> } -> IF bs THEN 1 ELSE 0
       [] quoteChar = <<".">> ->
            IF bs /\ i + 2 <= Len(key) /\ key[i + 2] \notin LineTerminators
            THEN 2 ELSE NoMatch
       [] quoteChar = <<"^">> -> NoMatch
       [] quoteChar = <<"$">> -> IF bs /\ i + 1 = Len(key) THEN 1 ELSE NoMatch
       [] OTHER -> IF bs /\ MatchLit(key, i + 1, quoteChar) THEN 2 ELSE NoMatch

\* key.replace(regex, quoteChar) with the "g" flag, from offset i
RECURSIVE ReplaceEscapes(_, _, _)
ReplaceEscapes(key, i, quoteChar) ==
  IF i > Len(key) THEN <<>>
  ELSE LET c == IF i < Len(key) THEN <<key[i + 1]>> ELSE <<>>
       IN Let(LAMBDA m :
                IF m = NoMatch THEN c \o ReplaceEscapes(key, i + 1, quoteChar)
                ELSE IF m = 0 THEN quoteChar \o c \o ReplaceEscapes(key, i + 1, quoteChar)
                ELSE quoteChar \o ReplaceEscapes(key, i + m, quoteChar),
              EscapeMatchLen(key, i, quoteChar))

getEscapedPlaceholderKey(key, quoteChar) == ReplaceEscapes(key, 0, quoteChar)

\* v.slice(1); v.slice(2, -1); v.slice(-1)
slice1(v) == substring(v, 1)
slice2m1(v) == SubSeq(v, 3, Len(v) - 1)
sliceLast(v) == IF v = <<>> THEN <<>> ELSE <<v[Len(v)]>>

\* token.key = parseKey(token.value) when the regex matches; the parseKey of
\* the string-quoted placeholder builds a regular expression and may throw
getPlaceholderTokenWithKey(input, matchLen, parseKey) ==
  Let(LAMBDA tk :
        IF tk = Undefined THEN Undefined
        ELSE IF parseKey = "slice1" THEN [tk EXCEPT !.key = slice1(tk.value)]
        ELSE IF RegExpSyntaxError(sliceLast(tk.value)) THEN Thrown
        ELSE [tk EXCEPT !.key = getEscapedPlaceholderKey(slice2m1(tk.value),
                                                         sliceLast(tk.value))],
      getTokenOnFirstMatch(input, tokenTypes.PLACEHOLDER, matchLen))

getIdentNamedPlaceholderToken(cfg, input) ==
  getPlaceholderTokenWithKey(input,
    createPlaceholderRegex(cfg.namedPlaceholderTypes, "[a-zA-Z0-9._$]+", cfg.stringTypes, input),
    "slice1")

getStringNamedPlaceholderToken(cfg, input) ==
  getPlaceholderTokenWithKey(input,
    createPlaceholderRegex(cfg.namedPlaceholderTypes, "string", cfg.stringTypes, input),
    "string")

getIndexedPlaceholderToken(cfg, input) ==
  getPlaceholderTokenWithKey(input,
    createPlaceholderRegex(cfg.indexedPlaceholderTypes, "[0-9]*", cfg.stringTypes, input),
    "slice1")

getPlaceholderToken(cfg, input) ==
  OrElse(getIdentNamedPlaceholderToken(cfg, input),
  OrElse(getStringNamedPlaceholderToken(cfg, input),
         getIndexedPlaceholderToken(cfg, input)))

getNumberToken(input) ==
  getTokenOnFirstMatch(input, tokenTypes.NUMBER, NUMBER_REGEX(input))

getOperatorToken(input) ==
  getTokenOnFirstMatch(input, tokenTypes.OPERATOR, OPERATOR_REGEX(input))

getToplevelReservedToken(cfg, input) ==
  getTokenOnFirstMatch(input, tokenTypes.RESERVED_TOPLEVEL,
                       createReservedWordRegex(cfg.reservedToplevelWords, input))

getNewlineReservedToken(cfg, input) ==
  getTokenOnFirstMatch(input, tokenTypes.RESERVED_NEWLINE,
                       createReservedWordRegex(cfg.reservedNewlineWords, input))

getPlainReservedToken(cfg, input) ==
  getTokenOnFirstMatch(input, tokenTypes.RESERVED,
                       createReservedWordRegex(cfg.reservedWords, input))

\* A reserved word cannot be preceded by a "."
getReservedWordToken(cfg, input, previousToken) ==
  IF previousToken # Undefined /\ previousToken.value # <<>> /\ previousToken.value = <<".">>
  THEN Undefined
  ELSE UpperCased(OrElse(getToplevelReservedToken(cfg, input),
                  OrElse(getNewlineReservedToken(cfg, input),
                         getPlainReservedToken(cfg, input))))

getWordToken(cfg, input) ==
  getTokenOnFirstMatch(input, tokenTypes.WORD, createWordRegex(cfg.specialWordChars, input))

getNextToken(cfg, input, previousToken) ==
  OrElse(getWhitespaceToken(input),
  OrElse(getCommentToken(cfg, input),
  OrElse(getStringToken(cfg, input),
  OrElse(getOpenParenToken(cfg, input),
  OrElse(getCloseParenToken(cfg, input),
  OrElse(getPlaceholderToken(cfg, input),
  OrElse(getNumberToken(input),
  OrElse(getReservedWordToken(cfg, input, previousToken),
  OrElse(getWordToken(cfg, input),
         getOperatorToken(input))))))))))

(* ------------------------------------------------------------------------ *)
(* Tokenizer.tokenize as a function: the tokens and how the call ends.      *)
(* "returned": the input is used up; "thrown": getNextToken threw;          *)
(* "diverges": two iterations in a row matched the empty string, after      *)
(* which every iteration sees the same input and an equivalent previous     *)
(* token, so the loop never ends.                                           *)
(* ------------------------------------------------------------------------ *)
\* st is the loop state [input, token, tokens]
RECURSIVE tokenizeFrom(_, _)
tokenizeFrom(cfg, st) ==
  IF st.input = <<>> THEN [tokens |-> st.tokens, status |-> "returned"]
  ELSE Let(LAMBDA next :
             IF next = Thrown THEN [tokens |-> st.tokens, status |-> "thrown"]
             ELSE IF next = Undefined THEN [tokens |-> st.tokens, status |-> "diverges"]
             ELSE IF next.value = <<>> /\ st.token # Undefined /\ st.token.value = <<>>
               THEN [tokens |-> Append(st.tokens, next), status |-> "diverges"]
             ELSE Let(LAMBDA st2 : tokenizeFrom(cfg, st2),
                      [input |-> substring(st.input, Len(next.value)),
                       token |-> next,
                       tokens |-> Append(st.tokens, next)]),
           getNextToken(cfg, st.input, st.token))

tokenize(cfg, input) ==
  Let(LAMBDA st : tokenizeFrom(cfg, st),
      [input |-> input, token |-> Undefined, tokens |-> <<>>])

\* the concatenation of the texts of a token list
RECURSIVE JoinValues(_)
JoinValues(tokens) ==
  IF tokens = <<>> THEN <<>> ELSE Head(tokens).value \o JoinValues(Tail(tokens))

(* ------------------------------------------------------------------------ *)
(* Strings of the printer                                                   *)
(* ------------------------------------------------------------------------ *)
Max(S) == CHOOSE x \in S : \A y \in S : x >= y

\* lodash trimEnd: the string without its trailing whitespace
trimEnd(s) ==
  LET keep == {i \in 1..Len(s) : s[i] \notin WhiteSpace}
  IN IF keep = {} THEN <<>> ELSE Take(s, Max(keep))

\* String.prototype.trim
trim(s) ==
  LET keep == {i \in 1..Len(s) : s[i] \notin WhiteSpace}
  IN IF keep = {} THEN <<>> ELSE SubSeq(s, Min(keep), Max(keep))

\* string.replace(/\s+/g, ' ')
RECURSIVE equalizeWhitespace(_)
equalizeWhitespace(string) ==
  IF string = <<>> THEN <<>>
  ELSE IF Head(string) \in WhiteSpace
    THEN <<" ">> \o Let(LAMBDA rest : equalizeWhitespace(rest),
                        substring(string, RunIn(string, 0, WhiteSpace)))
  ELSE <<Head(string)>> \o equalizeWhitespace(Tail(string))

\* comment.replace(/\n/g, "\n" + indent)
RECURSIVE indentComment(_, _)
indentComment(comment, indent) ==
  IF comment = <<>> THEN <<>>
  ELSE IF Head(comment) = "\n"
    THEN <<"\n">> \o indent \o indentComment(Tail(comment), indent)
  ELSE <<Head(comment)>> \o indentComment(Tail(comment), indent)

(* ------------------------------------------------------------------------ *)
(* Params (src/unnamed/part_001).  The parameter source is null, an object  *)
(* (a mapping from keys to strings) or an array of strings.  A value that   *)
(* Params.get returns is a string or the JavaScript value undefined.        *)
(* ------------------------------------------------------------------------ *)
JSString(s) == [t |-> "string", v |-> s]
JSUndefined == [t |-> "undefined", v |-> <<>>]

\* the string a template literal or "+" makes of a value
JSToString(x) ==
  IF x.t = "undefined" THEN <<"u","n","d","e","f","i","n","e","d">> ELSE x.v

NullParams == [kind |-> "null", keys |-> <<>>, vals |-> <<>>]
ObjectParams(keys, vals) == [kind |-> "object", keys |-> keys, vals |-> vals]
ArrayParams(vals) == [kind |-> "array", keys |-> <<>>, vals |-> vals]

\* constructor(params = {}): an absent argument becomes the empty object
Params_constructor(params) ==
  IF params.kind = "undefined" THEN ObjectParams(<<>>, <<>>) ELSE params

\* a get that never consults the parameters
Params_get_NoLookup(params, index, token) ==
  [value |-> JSString(token.value), index |-> index]

\* Params.get: the value returned and the index afterwards
Params_get(params, index, token) ==
  IF params.kind = "null"
  THEN [value |-> JSString(token.value), index |-> index]
  ELSE IF params.kind # "array"
    THEN IF \E i \in DOMAIN params.keys : params.keys[i] = token.key
         THEN [value |-> JSString(params.vals[CHOOSE i \in DOMAIN params.keys :
                                                params.keys[i] = token.key]),
               index |-> index]
         ELSE [value |-> JSString(token.value), index |-> index]
  ELSE [value |-> IF index + 1 \in DOMAIN params.vals
                  THEN JSString(params.vals[index + 1]) ELSE JSUndefined,
        index |-> index + 1]

(* ------------------------------------------------------------------------ *)
(* Indentation and InlineBlock.  Their files are not part of the sources;   *)
(* they are modelled from the specification (sections 3, 4.3 and 4.4).      *)
(* ------------------------------------------------------------------------ *)
\* the indent unit: the default of PrinterConfig.indent
DefaultIndent == <<" ", " ">>

\* the maximum length of an inline block
INLINE_MAX_LENGTH == 50

\* currentIndent: the indent unit repeated once per stack entry
RECURSIVE getIndent(_)
getIndent(indentation) ==
  IF indentation = <<>> THEN <<>>
  ELSE DefaultIndent \o getIndent(Tail(indentation))

\* pushClause
increaseToplevel(indentation) == Append(indentation, "clause")

\* pushNesting
increaseBlockLevel(indentation) == Append(indentation, "nesting")

\* popClauseIfPresent: pops when the top of the stack is a clause marker
decreaseTopLevel(indentation) ==
  IF indentation # <<>> /\ indentation[Len(indentation)] = "clause"
  THEN Take(indentation, Len(indentation) - 1)
  ELSE indentation

\* popNestingDiscardingClauses: pops down to and including the most recent
\* nesting marker; on a stack without one every clause marker goes, and on an
\* empty stack nothing happens
decreaseBlockLevel(indentation) ==
  LET nest == {i \in DOMAIN indentation : indentation[i] = "nesting"}
  IN IF nest = {} THEN <<>> ELSE Take(indentation, Max(nest) - 1)

\* the sum of the lengths of the token texts tokens[from..to]
RECURSIVE SpanLength(_, _, _)
SpanLength(tokens, from, to) ==
  IF from > to THEN 0 ELSE Len(tokens[from].value) + SpanLength(tokens, from + 1, to)

\* shouldInline(tokens, openIndex): openIndex is the 0-based index of the
\* opening bracket.  The span runs to the matching closing bracket; it must
\* hold no nested bracket, line comment, toplevel or newline reserved word,
\* and be no longer than INLINE_MAX_LENGTH
shouldInline(tokens, openIndex) ==
  LET brackets == {j \in (openIndex + 2)..Len(tokens) :
                     tokens[j].type \in {tokenTypes.OPEN_PAREN, tokenTypes.CLOSE_PAREN}}
      close == Min(brackets)
  IN /\ brackets # {}
     /\ tokens[close].type = tokenTypes.CLOSE_PAREN
     /\ \A j \in (openIndex + 2)..(close - 1) :
          tokens[j].type \notin {tokenTypes.LINE_COMMENT, tokenTypes.RESERVED_TOPLEVEL,
                                 tokenTypes.RESERVED_NEWLINE}
     /\ SpanLength(tokens, openIndex + 1, close) <= INLINE_MAX_LENGTH

\* InlineBlock.beginIfPossible: evaluated for an opening bracket that is not
\* inside an active inline block; the flag afterwards
beginIfPossible(inlineBlock, tokens, index) ==
  IF inlineBlock THEN TRUE ELSE shouldInline(tokens, index)

\* InlineBlock.isActive and InlineBlock.end
isActive(inlineBlock) == inlineBlock
end(inlineBlock) == FALSE

(* ------------------------------------------------------------------------ *)
(* Formatter (src/src/core/Formatter.ts).  f is the Formatter instance with *)
(* the local formattedQuery of getFormattedQueryFromTokens:                 *)
(*   [params, paramsIndex, indentation, inlineBlock, previousReservedWord,  *)
(*    tokens, index, formattedQuery]                                        *)
(* index is 0-based as in the code: the current token is tokens[index + 1]. *)
(* ------------------------------------------------------------------------ *)
\* this.tokens[this.index - offset] || {}
previousToken(f, offset) ==
  IF f.index - offset + 1 \in DOMAIN f.tokens
  THEN f.tokens[f.index - offset + 1] ELSE Undefined

RECURSIVE previousNonWhitespaceTokenFrom(_, _)
previousNonWhitespaceTokenFrom(f, n) ==
  IF previousToken(f, n).type = tokenTypes.WHITESPACE
  THEN previousNonWhitespaceTokenFrom(f, n + 1)
  ELSE previousToken(f, n)

previousNonWhitespaceToken(f) == previousNonWhitespaceTokenFrom(f, 1)

trimTrailingWhitespace(f, query) ==
  IF previousNonWhitespaceToken(f).type = tokenTypes.LINE_COMMENT
  THEN trimEnd(query) \o <<"\n">>
  ELSE trimEnd(query)

addNewline(f, query) == trimEnd(query) \o <<"\n">> \o getIndent(f.indentation)

formatWithSpaces(f, token, query) ==
  [f EXCEPT !.formattedQuery = query \o token.value \o <<" ">>]

formatWithoutSpaces(f, token, query) ==
  [f EXCEPT !.formattedQuery = trimTrailingWhitespace(f, query) \o token.value]

formatWithSpaceAfter(f, token, query) ==
  [f EXCEPT !.formattedQuery = trimTrailingWhitespace(f, query) \o token.value \o <<" ">>]

formatQuerySeparator(f, token, query) ==
  [f EXCEPT !.formattedQuery =
     trimTrailingWhitespace(f, query) \o <<"\n">> \o token.value \o <<"\n">>]

formatLineComment(f, token, query) ==
  [f EXCEPT !.formattedQuery = addNewline(f, query \o token.value)]

formatBlockComment(f, token, query) ==
  [f EXCEPT !.formattedQuery =
     addNewline(f, addNewline(f, query) \o indentComment(token.value, getIndent(f.indentation)))]

\* a toplevel word that pushes its clause marker without popping the one of
\* the clause before
formatToplevelReservedWord_NoPop(f, token, query) ==
  LET q1 == addNewline(f, query)
      f2 == [f EXCEPT !.indentation = increaseToplevel(f.indentation)]
      q2 == q1 \o equalizeWhitespace(token.value)
  IN [f2 EXCEPT !.formattedQuery = addNewline(f2, q2)]

formatToplevelReservedWord(f, token, query) ==
  LET f1 == [f EXCEPT !.indentation = decreaseTopLevel(f.indentation)]
      q1 == addNewline(f1, query)
      f2 == [f1 EXCEPT !.indentation = increaseToplevel(f1.indentation)]
      q2 == q1 \o equalizeWhitespace(token.value)
  IN [f2 EXCEPT !.formattedQuery = addNewline(f2, q2)]

formatNewlineReservedWord(f, token, query) ==
  [f EXCEPT !.formattedQuery =
     addNewline(f, query) \o equalizeWhitespace(token.value) \o <<" ">>]

formatOpeningParentheses(f, token, query) ==
  LET preserveWhitespaceFor ==
        {tokenTypes.WHITESPACE, tokenTypes.OPEN_PAREN, tokenTypes.LINE_COMMENT}
      q1 == (IF previousToken(f, 1).type \notin preserveWhitespaceFor
             THEN trimEnd(query) ELSE query) \o token.value
      f1 == [f EXCEPT !.inlineBlock = beginIfPossible(f.inlineBlock, f.tokens, f.index)]
      f2 == [f1 EXCEPT !.indentation = increaseBlockLevel(f1.indentation)]
  IN IF ~ isActive(f1.inlineBlock)
     THEN [f2 EXCEPT !.formattedQuery = addNewline(f2, q1)]
     ELSE [f1 EXCEPT !.formattedQuery = q1]

\* a close that pops a clause marker where it should pop the nesting level
formatClosingParentheses_PopsClause(f, token, query) ==
  IF isActive(f.inlineBlock)
  THEN formatWithSpaceAfter([f EXCEPT !.inlineBlock = end(f.inlineBlock)], token, query)
  ELSE LET f1 == [f EXCEPT !.indentation = decreaseTopLevel(f.indentation)]
       IN formatWithSpaces(f1, token, addNewline(f1, query))

formatClosingParentheses(f, token, query) ==
  IF isActive(f.inlineBlock)
  THEN formatWithSpaceAfter([f EXCEPT !.inlineBlock = end(f.inlineBlock)], token, query)
  ELSE LET f1 == [f EXCEPT !.indentation = decreaseBlockLevel(f.indentation)]
       IN formatWithSpaces(f1, token, addNewline(f1, query))

formatPlaceholder(f, token, query) ==
  LET got == Params_get(f.params, f.paramsIndex, token)
  IN [f EXCEPT !.paramsIndex = got.index,
               !.formattedQuery = query \o JSToString(got.value) \o <<" ">>]

\* /^LIMIT$/i.test(value)
IsLimit(value) ==
  Len(value) = 5 /\ MatchLitCI(value, 0, <<"L","I","M","I","T">>)

formatComma(f, token, query) ==
  LET q1 == trimTrailingWhitespace(f, query) \o token.value \o <<" ">>
  IN IF isActive(f.inlineBlock) THEN [f EXCEPT !.formattedQuery = q1]
     ELSE IF IsLimit(f.previousReservedWord.value) THEN [f EXCEPT !.formattedQuery = q1]
     ELSE [f EXCEPT !.formattedQuery = addNewline(f, q1)]

\* the reserved word the printer remembers after a token
RememberReservedWord(f, token) == [f EXCEPT !.previousReservedWord = token]

\* the callback of this.tokens.forEach in getFormattedQueryFromTokens, for
\* the token at index
formatToken(f0, index) ==
  LET f == [f0 EXCEPT !.index = index]
      token == f.tokens[index + 1]
      query == f.formattedQuery
  IN IF token.type = tokenTypes.WHITESPACE THEN f
     ELSE IF token.type = tokenTypes.LINE_COMMENT THEN formatLineComment(f, token, query)
     ELSE IF token.type = tokenTypes.BLOCK_COMMENT THEN formatBlockComment(f, token, query)
     ELSE IF token.type = tokenTypes.RESERVED_TOPLEVEL
       THEN RememberReservedWord(formatToplevelReservedWord(f, token, query), token)
     ELSE IF token.type = tokenTypes.RESERVED_NEWLINE
       THEN RememberReservedWord(formatNewlineReservedWord(f, token, query), token)
     ELSE IF token.type = tokenTypes.RESERVED
       THEN RememberReservedWord(formatWithSpaces(f, token, query), token)
     ELSE IF token.type = tokenTypes.OPEN_PAREN THEN formatOpeningParentheses(f, token, query)
     ELSE IF token.type = tokenTypes.CLOSE_PAREN THEN formatClosingParentheses(f, token, query)
     ELSE IF token.type = tokenTypes.PLACEHOLDER THEN formatPlaceholder(f, token, query)
     ELSE IF token.value = <<",">> THEN formatComma(f, token, query)
     ELSE IF token.value = <<":">> THEN formatWithSpaceAfter(f, token, query)
     ELSE IF token.value = <<".">> THEN formatWithoutSpaces(f, token, query)
     ELSE IF token.value = <<";">> THEN formatQuerySeparator(f, token, query)
     ELSE formatWithSpaces(f, token, query)

\* getFormattedQueryFromTokens from token index on: the instance afterwards
RECURSIVE formatFrom(_, _)
formatFrom(f, index) ==
  IF index >= Len(f.tokens) THEN f
  ELSE Let(LAMBDA f1 : formatFrom(f1, index + 1), formatToken(f, index))

\* new Formatter(cfg, tokenizer): the instance after construction
Formatter_constructor(params) ==
  [params |-> Params_constructor(params), paramsIndex |-> 0,
   indentation |-> <<>>, inlineBlock |-> FALSE,
   previousReservedWord |-> Token("", <<>>, <<>>),
   tokens |-> <<>>, index |-> 0, formattedQuery |-> <<>>]

(* ------------------------------------------------------------------------ *)
(* Configurations and inputs of the model                                   *)
(* ------------------------------------------------------------------------ *)
\* a dialect in the style of standard SQL: CASE and END are reserved words
\* and bracket keywords at once, LIMIT is a toplevel word
SqlCfg ==
  [reservedWords |-> << <<"A","S">>, <<"C","A","S","E">>, <<"E","N","D">> >>,
   reservedToplevelWords |-> << <<"F","R","O","M">>, <<"L","I","M","I","T">> >>,
   reservedNewlineWords |-> << <<"O","R">> >>,
   stringTypes |-> <<"\"\"", "N''", "''", "backticks", "[]">>,
   openParens |-> << <<"(">>, <<"C","A","S","E">> >>,
   closeParens |-> << <<")">>, <<"E","N","D">> >>,
   indexedPlaceholderTypes |-> << <<"?">> >>,
   namedPlaceholderTypes |-> << <<"@">>, <<":">> >>,
   lineCommentTypes |-> << <<"#">>, <<"-","-">> >>,
   specialWordChars |-> <<>>]

\* the same dialect without indexed placeholders (the list is absent)
NoIndexedCfg == [SqlCfg EXCEPT !.indexedPlaceholderTypes = <<>>]

\* new Tokenizer({}): every list absent
EmptyCfg ==
  [reservedWords |-> <<>>, reservedToplevelWords |-> <<>>, reservedNewlineWords |-> <<>>,
   stringTypes |-> <<>>, openParens |-> <<>>, closeParens |-> <<>>,
   indexedPlaceholderTypes |-> <<>>, namedPlaceholderTypes |-> <<>>,
   lineCommentTypes |-> <<>>, specialWordChars |-> <<>>]

TokenizerCfgs == {SqlCfg, NoIndexedCfg, EmptyCfg}

\* the pieces the input strings of the tokenizer are built from
TokenizerChunks ==
  { <<" ">>, <<"a">>, <<".">>, <<"a","s">>, <<"o","r">>, <<"F","r","o","m">>,
    <<"c","a","s","e">>, <<"(">>, <<"1">>, <<"'">>, <<"@">>, <<"?">>, <<"\\">> }

\* the pieces the queries given to the formatter are built from
FormatterChunks ==
  { <<" ">>, <<"a">>, <<".">>, <<",">>, <<"(">>, <<")">>, <<"?">>, <<"@">>,
    <<"'">>, <<"l","i","m","i","t"," ">>, <<"a","s">>, <<"o","r">> }

\* an input is at most MaxChunks pieces; for a Formatter instance the bound
\* is on the pieces of all its calls together
MaxChunks == 3

\* the tokenize loop is followed for at most MaxTokens tokens
MaxTokens == 8

\* the concatenations of exactly n pieces of chunks
RECURSIVE Strings(_, _)
Strings(chunks, n) ==
  IF n = 0 THEN { <<>> }
  ELSE {c \o t : c \in chunks, t \in Strings(chunks, n - 1)}

TokenizerInputs == UNION {Strings(TokenizerChunks, n) : n \in 0..MaxChunks}
Queries == [n \in 0..MaxChunks |-> Strings(FormatterChunks, n)]

\* the parameter sources: absent, null, a mapping, an ordered sequence
UndefinedParams == [kind |-> "undefined", keys |-> <<>>, vals |-> <<>>]
ParamsChoices ==
  { UndefinedParams,
    NullParams,
    ObjectParams(<< <<"a">> >>, << <<"v">> >>),
    ArrayParams(<< <<"x">>, <<"y">> >>) }

(* ------------------------------------------------------------------------ *)
(* State                                                                    *)
(* ------------------------------------------------------------------------ *)
VARIABLES
  cfg,                  \* the configuration the Tokenizer was built from
  tkPc,                 \* tokenize: "idle", "loop", "returned", "thrown"
  tkQuery,              \* tokenize: the argument of the call
  input,                \* tokenize: the input not yet consumed
  token,                \* tokenize: the token of the last iteration
  tkTokens,             \* tokenize: the local list tokens
  params,               \* Params.params
  paramsIndex,          \* Params.index
  indentation,          \* the stack of the Indentation
  inlineBlock,          \* the flag of the InlineBlock
  previousReservedWord, \* Formatter.previousReservedWord
  tokens,               \* Formatter.tokens
  index,                \* Formatter.index
  formattedQuery,       \* the local formattedQuery of getFormattedQueryFromTokens
  pc,                   \* format: "idle", "printing", "thrown"
  pos,                  \* the number of tokens forEach has visited
  query,                \* format: the argument of the call
  result,               \* what the last call of format returned
  fed,                  \* the number of input pieces this instance was given
  atCall                \* the instance as it was when the call began

vars ==
  <<cfg, tkPc, tkQuery, input, token, tkTokens, params, paramsIndex, indentation,
    inlineBlock, previousReservedWord, tokens, index, formattedQuery, pc, pos,
    query, result, fed, atCall>>

tokenizerVars == <<tkPc, tkQuery, input, token, tkTokens>>

formatterVars ==
  <<params, paramsIndex, indentation, inlineBlock, previousReservedWord, tokens,
    index, formattedQuery, pc, pos, query, result, fed, atCall>>

\* the Formatter instance as a record
Self ==
  [params |-> params, paramsIndex |-> paramsIndex, indentation |-> indentation,
   inlineBlock |-> inlineBlock, previousReservedWord |-> previousReservedWord,
   tokens |-> tokens, index |-> index, formattedQuery |-> formattedQuery]

\* the variables take the fields of f
Becomes(f) ==
  /\ params' = f.params
  /\ paramsIndex' = f.paramsIndex
  /\ indentation' = f.indentation
  /\ inlineBlock' = f.inlineBlock
  /\ previousReservedWord' = f.previousReservedWord
  /\ tokens' = f.tokens
  /\ index' = f.index
  /\ formattedQuery' = f.formattedQuery

NoResult == [t |-> "none", v |-> <<>>]
Exception == [t |-> "exception", v |-> <<>>]

\* a Tokenizer built from c and a Formatter built with the parameters p
Constructed(c, p) ==
  /\ cfg = c
  /\ tkPc = "idle" /\ tkQuery = <<>> /\ input = <<>> /\ token = Undefined
  /\ tkTokens = <<>>
  /\ \E f \in {Formatter_constructor(p)} :
        /\ params = f.params
        /\ paramsIndex = f.paramsIndex
        /\ indentation = f.indentation
        /\ inlineBlock = f.inlineBlock
        /\ previousReservedWord = f.previousReservedWord
        /\ tokens = f.tokens
        /\ index = f.index
        /\ formattedQuery = f.formattedQuery
        /\ atCall = f
  /\ pc = "idle" /\ pos = 0 /\ query = <<>> /\ result = NoResult /\ fed = 0

Init == \E p \in ParamsChoices : Constructed(SqlCfg, p)

InitTokenizer == \E c \in TokenizerCfgs : Constructed(c, UndefinedParams)

(* ------------------------------------------------------------------------ *)
(* Tokenizer.tokenize, one loop iteration at a time                         *)
(* ------------------------------------------------------------------------ *)
\* tokenize(input) is called.  A call keeps nothing of the calls before it,
\* so one call is followed
tokenize_call(q) ==
  /\ tkPc = "idle"
  /\ tkPc' = "loop"
  /\ tkQuery' = q
  /\ input' = q
  /\ token' = Undefined
  /\ tkTokens' = <<>>
  /\ UNCHANGED <<cfg, formatterVars>>

\* one iteration of while (input.length)
tokenize_iterate ==
  /\ tkPc = "loop"
  /\ input # <<>>
  /\ Len(tkTokens) < MaxTokens
  /\ \E next \in {getNextToken(cfg, input, token)} :
        /\ next # Thrown
        /\ token' = next
        /\ IF next # Undefined
           THEN /\ input' = substring(input, Len(next.value))
                /\ tkTokens' = Append(tkTokens, next)
           ELSE UNCHANGED <<input, tkTokens>>
  /\ UNCHANGED <<cfg, tkPc, tkQuery, formatterVars>>

\* getNextToken throws: the exception leaves tokenize
tokenize_throw ==
  /\ tkPc = "loop"
  /\ input # <<>>
  /\ getNextToken(cfg, input, token) = Thrown
  /\ tkPc' = "thrown"
  /\ UNCHANGED <<cfg, tkQuery, input, token, tkTokens, formatterVars>>

\* the input is empty: return tokens
tokenize_return ==
  /\ tkPc = "loop"
  /\ input = <<>>
  /\ tkPc' = "returned"
  /\ UNCHANGED <<cfg, tkQuery, input, token, tkTokens, formatterVars>>

NextTokenizer ==
  \/ \E q \in TokenizerInputs : tokenize_call(q)
  \/ tokenize_iterate
  \/ tokenize_throw
  \/ tokenize_return

SpecTokenizer == InitTokenizer /\ [][NextTokenizer]_vars

(* ------------------------------------------------------------------------ *)
(* Formatter.format, one token of the forEach at a time                     *)
(* ------------------------------------------------------------------------ *)
\* the fields of the instance that a call of format starts from
Carried(f) == [f EXCEPT !.tokens = <<>>, !.index = 0, !.formattedQuery = <<>>]

\* format(query) is called with a query of n pieces: this.tokens becomes the
\* tokens of the query, or the exception of the tokenizer leaves format
format_call(n, q) ==
  /\ pc \in {"idle", "thrown"}
  /\ fed + n <= MaxChunks
  /\ fed' = fed + n
  /\ query' = q
  /\ atCall' = Carried(Self)
  /\ \E r \in {tokenize(cfg, q)} :
        \/ /\ r.status = "returned"
           /\ pc' = "printing"
           /\ tokens' = r.tokens
           /\ formattedQuery' = <<>>
           /\ pos' = 0
           /\ result' = NoResult
        \/ /\ r.status = "thrown"
           /\ pc' = "thrown"
           /\ result' = Exception
           /\ UNCHANGED <<tokens, formattedQuery, pos>>
  /\ UNCHANGED <<cfg, tokenizerVars, params, paramsIndex, indentation, inlineBlock,
                 previousReservedWord, index>>

\* the callback of forEach for the next token
format_token ==
  /\ pc = "printing"
  /\ pos < Len(tokens)
  /\ \E f \in {formatToken(Self, pos)} : Becomes(f)
  /\ pos' = pos + 1
  /\ UNCHANGED <<cfg, tokenizerVars, pc, query, result, fed, atCall>>

\* return formattedQuery.trim()
format_return ==
  /\ pc = "printing"
  /\ pos = Len(tokens)
  /\ pc' = "idle"
  /\ result' = JSString(trim(formattedQuery))
  /\ UNCHANGED <<cfg, tokenizerVars, params, paramsIndex, indentation, inlineBlock,
                 previousReservedWord, tokens, index, formattedQuery, pos, query,
                 fed, atCall>>

Next ==
  \/ \E n \in 0..MaxChunks : \E q \in Queries[n] : format_call(n, q)
  \/ format_token
  \/ format_return

Spec == Init /\ [][Next]_vars

(* ------------------------------------------------------------------------ *)
(* Properties                                                               *)
(* ------------------------------------------------------------------------ *)
ReservedKinds ==
  {tokenTypes.RESERVED, tokenTypes.RESERVED_TOPLEVEL, tokenTypes.RESERVED_NEWLINE}

BracketKinds == {tokenTypes.OPEN_PAREN, tokenTypes.CLOSE_PAREN}

\* the part of the input q that token i of ts was matched on
SourceText(q, ts, i) ==
  LET offset == Len(JoinValues(SubSeq(ts, 1, i - 1)))
  IN SubSeq(q, offset + 1, offset + Len(ts[i].value))

EndsWith(s, t) ==
  Len(t) <= Len(s) /\ SubSeq(s, Len(s) - Len(t) + 1, Len(s)) = t

\* the number of placeholder tokens among the first n tokens
Placeholders(ts, n) ==
  Cardinality({i \in 1..n : ts[i].type = tokenTypes.PLACEHOLDER})

\* the kinds of the tokens that are not whitespace, in order
RECURSIVE Kinds(_)
Kinds(ts) ==
  IF ts = <<>> THEN <<>>
  ELSE IF Head(ts).type = tokenTypes.WHITESPACE THEN Kinds(Tail(ts))
  ELSE <<Head(ts).type>> \o Kinds(Tail(ts))

\* the instance a new Formatter with the same parameters would be
Fresh == [Self EXCEPT !.paramsIndex = 0, !.indentation = <<>>, !.inlineBlock = FALSE,
                      !.previousReservedWord = Token("", <<>>, <<>>),
                      !.index = 0, !.formattedQuery = <<>>]

\* the call in progress, or just returned, is the first call on the instance
FirstCall == atCall = Carried(Fresh)

\* the words of the three reserved classes of a configuration
ReservedWordsOf(c) ==
  {c.reservedWords[i] : i \in DOMAIN c.reservedWords}
    \cup {c.reservedToplevelWords[i] : i \in DOMAIN c.reservedToplevelWords}
    \cup {c.reservedNewlineWords[i] : i \in DOMAIN c.reservedNewlineWords}

\* q is <word>.<word2> with word2 a reserved word of c in any case
DotForm(q, c) ==
  \E k \in 2..Len(q) :
    /\ q[k] = "."
    /\ \A j \in 1..(k - 1) : q[j] \in Letters
    /\ toUpperCase(SubSeq(q, k + 1, Len(q))) \in ReservedWordsOf(c)

\* C1: every iteration of the tokenize loop yields a token whose text has
\* length >= 1 (so the remaining input strictly shrinks and tokenize
\* terminates), for every configuration the constructor accepts.
C1_EveryTokenHasText ==
  /\ \A i \in DOMAIN tkTokens : Len(tkTokens[i].value) >= 1
  /\ tkPc = "loop" /\ tkTokens # <<>> => Len(input) < Len(tkQuery)

\* C2 as claimed: the texts of the tokens tokenize returns, concatenated in
\* order, are the input string character for character.
C2_ConcatenationIsInput ==
  tkPc = "returned" => JoinValues(tkTokens) = tkQuery

\* C2 as amended: throughout the loop the texts of the tokens so far followed
\* by the remaining input have the length of the original input, the
\* remaining input is its tail, and each token's text is the part of the
\* input it was matched on: upper-cased for reserved-word and bracket tokens,
\* character for character for every other kind.
C2_ConcatenationUpToCase ==
  tkPc # "idle" =>
    /\ Len(JoinValues(tkTokens)) + Len(input) = Len(tkQuery)
    /\ input = substring(tkQuery, Len(JoinValues(tkTokens)))
    /\ \A i \in DOMAIN tkTokens :
         tkTokens[i].value =
           IF tkTokens[i].type \in ReservedKinds \cup BracketKinds
           THEN toUpperCase(SourceText(tkQuery, tkTokens, i))
           ELSE SourceText(tkQuery, tkTokens, i)

\* tokenize has returned a reserved word that it upper-cased and a bare word
\* that it left in lower case
C2_Witness ==
  /\ tkPc = "returned"
  /\ \E i \in DOMAIN tkTokens :
       /\ tkTokens[i].type \in ReservedKinds
       /\ tkTokens[i].value # SourceText(tkQuery, tkTokens, i)
  /\ \E i \in DOMAIN tkTokens :
       /\ tkTokens[i].type = tokenTypes.WORD
       /\ toUpperCase(tkTokens[i].value) # tkTokens[i].value

\* C3: at the start of every format call the indent stack is empty, no inline
\* block is active, the positional parameter counter is 0 and the remembered
\* reserved word is empty; hence every call returns what a newly constructed
\* Formatter returns for the query.
C3_FreshAtEveryCall ==
  /\ atCall.indentation = <<>>
  /\ atCall.inlineBlock = FALSE
  /\ atCall.paramsIndex = 0
  /\ atCall.previousReservedWord = Token("", <<>>, <<>>)
  /\ pc = "idle" /\ result # NoResult =>
       result = JSString(trim(formatFrom([Fresh EXCEPT !.tokens = tokens], 0).formattedQuery))

\* C4: with an ordered sequence as the parameter source, the k-th placeholder
\* processed in a format call is replaced by the k-th element of the sequence
\* (while the sequence has one), and the counter has advanced by one per
\* placeholder and by nothing else.
C4_KthPlaceholderGetsKthElement ==
  ( /\ pc = "printing"
    /\ pos >= 1
    /\ params.kind = "array"
    /\ tokens[pos].type = tokenTypes.PLACEHOLDER
    /\ Placeholders(tokens, pos) <= Len(params.vals) )
  => /\ EndsWith(formattedQuery, params.vals[Placeholders(tokens, pos)] \o <<" ">>)
     /\ paramsIndex = Placeholders(tokens, pos)

\* what C5 says a placeholder token is replaced by
C5_Replacement(tk) ==
  IF params.kind = "object" /\ \E i \in DOMAIN params.keys : params.keys[i] = tk.key
  THEN params.vals[CHOOSE i \in DOMAIN params.keys : params.keys[i] = tk.key]
  ELSE tk.value

\* C5: with a mapping as the parameter source a placeholder is replaced by the
\* mapping's entry for its key when the mapping has that key; with no
\* parameter source, or a mapping without the key, the placeholder's own text
\* is emitted unchanged.
C5_MappingEntryOrOwnText ==
  [][ ( /\ pc = "printing"
        /\ pos < Len(tokens)
        /\ params.kind # "array"
        /\ tokens[pos + 1].type = tokenTypes.PLACEHOLDER )
      => /\ formattedQuery' =
              formattedQuery \o C5_Replacement(tokens[pos + 1]) \o <<" ">>
         /\ paramsIndex' = paramsIndex ]_vars

\* a query with a placeholder the mapping knows and one it does not know has
\* been formatted
C5_Witness ==
  /\ pc = "idle"
  /\ params.kind = "object"
  /\ params.keys # <<>>
  /\ query = <<"@", "a", "?">>
  /\ result = JSString(<<"v", " ", "?">>)

\* C6: Params.get returns a string for every placeholder: once an ordered
\* sequence of n elements is used up, the (n+1)-th and every later
\* placeholder of the call is emitted as its own text.
C6_PlaceholderBeyondSequenceKeepsText ==
  ( /\ pc = "printing"
    /\ pos >= 1
    /\ FirstCall
    /\ params.kind = "array"
    /\ tokens[pos].type = tokenTypes.PLACEHOLDER
    /\ Placeholders(tokens, pos) > Len(params.vals) )
  => EndsWith(formattedQuery, tokens[pos].value \o <<" ">>)

\* C7: for an input <word>.<word2> with word2 a word of one of the three
\* reserved classes in any case, word2 is a bare word; and the token after a
\* token whose text is "." is never reserved-plain, reserved-toplevel or
\* reserved-newline.
C7_WordAfterDotIsBareWord ==
  /\ tkPc = "returned" /\ DotForm(tkQuery, cfg) =>
       Len(tkTokens) = 3 /\ tkTokens[3].type = tokenTypes.WORD
  /\ \A i \in DOMAIN tkTokens :
       i > 1 /\ tkTokens[i - 1].value = <<".">> => tkTokens[i].type \notin ReservedKinds

\* the text of the last toplevel or newline reserved word among the first n
\* tokens, empty when there is none
C8_LastClauseWord(ts, n) ==
  LET clause == {i \in 1..n : ts[i].type \in {tokenTypes.RESERVED_TOPLEVEL,
                                              tokenTypes.RESERVED_NEWLINE}}
  IN IF clause = {} THEN <<>> ELSE ts[Max(clause)].value

\* C8: at a comma outside an active inline block no newline follows the
\* comma when the most recently processed toplevel or newline reserved word is
\* LIMIT in any case, and a newline with the current indent follows it in
\* every other case; plain reserved words in between do not count.
C8_CommaNewlineRule ==
  ( /\ pc = "printing"
    /\ pos >= 1
    /\ FirstCall
    /\ tokens[pos].value = <<",">>
    /\ tokens[pos].type = tokenTypes.OPERATOR
    /\ ~ isActive(inlineBlock) )
  => IF IsLimit(C8_LastClauseWord(tokens, pos))
     THEN EndsWith(formattedQuery, <<",", " ">>)
     ELSE EndsWith(formattedQuery, <<",", "\n">> \o getIndent(indentation))

\* C9: formatting changes only whitespace: for a query formatted without
\* parameters, the tokens of the output that are not whitespace have the
\* kinds, in order and number, of the tokens of the query that are not
\* whitespace.
C9_FormatKeepsTokenKinds ==
  ( /\ pc = "idle"
    /\ result # NoResult
    /\ FirstCall
    /\ params = Params_constructor(UndefinedParams) )
  => Kinds(tokenize(cfg, result.v).tokens) = Kinds(tokens)

\* C10: format raises no exception and returns a string for every input
\* string, the empty string for the empty string; a closing bracket without
\* an open bracket leaves the indent stack at depth 0.
C10_FormatNeverThrows ==
  /\ pc # "thrown"
  /\ result # Exception
  /\ pc = "idle" /\ result # NoResult =>
       /\ result.t = "string"
       /\ query = <<>> => result.v = <<>>
  /\ Len(indentation) >= 0

\* the instance at the start of the call in progress, holding its tokens
CallStart == [atCall EXCEPT !.tokens = tokens]

\* the instance after the printer has processed the first n tokens of f
RECURSIVE AfterTokens(_, _)
AfterTokens(f, n) ==
  IF n = 0 THEN f
  ELSE Let(LAMBDA g : formatToken(g, n - 1), AfterTokens(f, n - 1))

\* the open brackets less the close brackets among tokens a..b of ts
BracketDepth(ts, a, b) ==
  Cardinality({k \in a..b : ts[k].type = tokenTypes.OPEN_PAREN})
    - Cardinality({k \in a..b : ts[k].type = tokenTypes.CLOSE_PAREN})

\* token o of ts is the open bracket that the close bracket c matches
MatchingBrackets(ts, o, c) ==
  /\ o < c
  /\ ts[o].type = tokenTypes.OPEN_PAREN
  /\ ts[c].type = tokenTypes.CLOSE_PAREN
  /\ BracketDepth(ts, o, c) = 0
  /\ \A k \in o..(c - 1) : BracketDepth(ts, o, k) >= 1

\* stack is base with one nesting marker and then clause markers only
NestingThenClauses(stack, base) ==
  /\ Len(stack) > Len(base)
  /\ Take(stack, Len(base)) = base
  /\ stack[Len(base) + 1] = "nesting"
  /\ \A k \in (Len(base) + 2)..Len(stack) : stack[k] = "clause"

\* C11: when the printer has processed a close bracket whose open bracket is
\* in the token sequence, the indent stack is what it was just before that
\* open bracket: an inline pair pushed and popped nothing, and for any other
\* pair the open pushed one nesting marker and the close popped it together
\* with the clause markers above it.
C11_BracketPairRestoresIndent ==
  (pc = "printing" /\ pos >= 1 /\ tokens[pos].type = tokenTypes.CLOSE_PAREN) =>
    \A o \in 1..(pos - 1) :
      MatchingBrackets(tokens, o, pos) =>
        LET before == AfterTokens(CallStart, o - 1)
            opened == AfterTokens(CallStart, o)
            closing == AfterTokens(CallStart, pos - 1)
        IN /\ indentation = before.indentation
           /\ IF isActive(opened.inlineBlock)
              THEN /\ opened.indentation = before.indentation
                   /\ closing.indentation = before.indentation
              ELSE /\ opened.indentation = Append(before.indentation, "nesting")
                   /\ NestingThenClauses(closing.indentation, before.indentation)

\* a close bracket has popped the nesting marker of its open bracket and a
\* clause marker pushed inside the pair
C11_Witness ==
  /\ pc = "printing"
  /\ pos >= 3
  /\ tokens[pos].type = tokenTypes.CLOSE_PAREN
  /\ \E o \in 1..(pos - 1) :
       /\ MatchingBrackets(tokens, o, pos)
       /\ Len(AfterTokens(CallStart, pos - 1).indentation) = Len(indentation) + 2

\* the indent of depth levels: the indent unit of two spaces, depth times
IndentOf(depth) == [k \in 1..(2 * depth) |-> " "]

\* stack without its top when the top is a clause marker
WithoutTopClause(stack) ==
  IF stack # <<>> /\ stack[Len(stack)] = "clause"
  THEN Take(stack, Len(stack) - 1) ELSE stack

\* tokens i < j of ts lie in the same bracket scope: the brackets between
\* them pair up
SameBracketScope(ts, i, j) ==
  /\ i < j
  /\ BracketDepth(ts, i, j) = 0
  /\ \A k \in i..j : BracketDepth(ts, i, k) >= 0

\* C12: the indent stack never holds two adjacent clause markers; processing
\* a toplevel-clause keyword pops a clause marker only if one is on top,
\* emits the keyword on a new line at the resulting indent, pushes exactly
\* one clause marker and goes on one level deeper; so the toplevel-clause
\* keywords of one bracket scope are emitted at the same depth.
C12_OneClauseMarkerPerScope ==
  /\ \A k \in 1..(Len(indentation) - 1) :
       ~ (indentation[k] = "clause" /\ indentation[k + 1] = "clause")
  /\ (pc = "printing" /\ pos >= 1 /\ tokens[pos].type = tokenTypes.RESERVED_TOPLEVEL) =>
       LET base == WithoutTopClause(AfterTokens(CallStart, pos - 1).indentation)
       IN /\ indentation = Append(base, "clause")
          /\ EndsWith(formattedQuery,
                      <<"\n">> \o IndentOf(Len(base)) \o equalizeWhitespace(tokens[pos].value)
                        \o <<"\n">> \o IndentOf(Len(base) + 1))
          /\ \A i \in 1..(pos - 1) :
               ( /\ tokens[i].type = tokenTypes.RESERVED_TOPLEVEL
                 /\ SameBracketScope(tokens, i, pos) )
               => Len(AfterTokens(CallStart, i).indentation) = Len(indentation)

\* inside a bracket, a second toplevel-clause keyword has replaced the
\* clause marker of the first
C12_Witness ==
  /\ pc = "printing"
  /\ pos >= 3
  /\ tokens[pos].type = tokenTypes.RESERVED_TOPLEVEL
  /\ indentation = <<"nesting", "clause">>
  /\ AfterTokens(CallStart, pos - 1).indentation = <<"nesting", "clause">>
  /\ \E i \in 1..(pos - 1) :
       tokens[i].type = tokenTypes.RESERVED_TOPLEVEL /\ SameBracketScope(tokens, i, pos)

====
